---- MODULE Spec2Model ----
(***************************************************************************)
(* Model of src/projects.js: the build registry (addBuild), the workspace  *)
(* reclaimer (clearWorkspace, clearFolder) and job validation (isValid).   *)
(***************************************************************************)
EXTENDS Integers, Sequences, FiniteSets, TLC

(***************************************************************************)
(* Bounds of the model.                                                    *)
(***************************************************************************)
MaxCalls == 2
MaxSlots == 2
MaxId == 2
MaxIoFaults == 2
MaxNodes == 4
MaxOther == 1

(***************************************************************************)
(* JavaScript values of a job's fields.  A text field is a tagged value:   *)
(* t is what typeof / instanceof see, s is the text.  `undefined` inside a *)
(* record is the token Undefined.                                          *)
(***************************************************************************)
Undefined == "<undefined>"

Str(s) == [t |-> "string", s |-> s]
StrObj(s) == [t |-> "String", s |-> s]
NotText(t) == [t |-> t, s |-> ""]

IntNum(n) == [t |-> "integer", n |-> n]
NotInt(t) == [t |-> t, n |-> 0]

Bool(b) == [t |-> "boolean", b |-> b]
NotBool(t) == [t |-> t, b |-> FALSE]

Shas == {"abc", "def"}

Commits ==
    { [sha |-> "abc", date |-> "d1", timestamp |-> "t1", message |-> "m1",
       author |-> "alice", avatar |-> "av1"],
      [sha |-> "def", date |-> "d2", timestamp |-> "t2", message |-> "m2",
       author |-> "bob", avatar |-> "av2"] }

NoCommit ==
    [sha |-> Undefined, date |-> Undefined, timestamp |-> Undefined,
     message |-> Undefined, author |-> Undefined, avatar |-> Undefined]

\* job.tags in its iteration order: a sequence of <<tag name, sha>> with
\* distinct non-numeric names (for..in visits such keys in insertion order).
TagMaps ==
    { <<>>,
      << <<"v1.0", "abc">> >>,
      << <<"v1.0", "abc">>, <<"v1.1", "abc">> >>,
      << <<"v1.1", "def">>, <<"v1.0", "abc">> >> }

\* Complete jobs of the branch main, and plainer ones of the branch dev.
ValidJobs ==
    [kind : {"plain"}, author : {Str("sf")}, repo : {Str("builds")},
     branch : {Str("main")},
     id : {IntNum(n) : n \in 1..MaxId}, success : {Bool(b) : b \in BOOLEAN},
     hasCommit : {TRUE}, commit : Commits, license : {Undefined},
     tags : TagMaps]
    \cup
    [kind : {"plain"}, author : {Str("sf")}, repo : {Str("builds")},
     branch : {Str("dev")},
     id : {IntNum(n) : n \in 1..MaxId}, success : {Bool(b) : b \in BOOLEAN},
     hasCommit : {TRUE}, commit : {c \in Commits : c.sha = "abc"},
     license : {"MIT"}, tags : {<<>>}]

BaseJob ==
    [kind |-> "plain", author |-> Str("sf"), repo |-> Str("builds"),
     branch |-> Str("main"), id |-> IntNum(1), success |-> Bool(TRUE),
     hasCommit |-> TRUE,
     commit |-> CHOOSE c \in Commits : c.sha = "abc",
     license |-> "MIT", tags |-> <<>>]

\* Jobs that pass isValid(job, true) but lack the fields validation ignores.
OddJobs ==
    { [BaseJob EXCEPT !.hasCommit = FALSE, !.commit = NoCommit],
      [BaseJob EXCEPT !.author = StrObj("sf")] }

\* Jobs that pass isValid(job, false) only.
UncompiledJobs ==
    { [BaseJob EXCEPT !.id = NotInt("undefined"), !.success = NotBool("undefined")],
      [BaseJob EXCEPT !.id = NotInt("float")],
      [BaseJob EXCEPT !.id = NotInt("string")],
      [BaseJob EXCEPT !.success = NotBool("string")] }

\* Jobs that pass neither.
BrokenJobs ==
    { [BaseJob EXCEPT !.kind = "null"],
      [BaseJob EXCEPT !.kind = "primitive"],
      [BaseJob EXCEPT !.kind = "instance"],
      [BaseJob EXCEPT !.author = NotText("undefined")],
      [BaseJob EXCEPT !.repo = NotText("number")],
      [BaseJob EXCEPT !.branch = NotText("undefined")] }

Jobs == ValidJobs \cup OddJobs \cup UncompiledJobs \cup BrokenJobs

DevJob == [BaseJob EXCEPT !.branch = Str("dev")]

\* The jobs clearWorkspace is called with.
ClearJobs ==
    { BaseJob, DevJob,
      [BaseJob EXCEPT !.id = NotInt("undefined"), !.success = NotBool("undefined")],
      [BaseJob EXCEPT !.kind = "instance"],
      [BaseJob EXCEPT !.branch = NotText("undefined")] }

(***************************************************************************)
(* isValid(job, compiled)                                                  *)
(***************************************************************************)
IsText(v) == v.t = "string" \/ v.t = "String"

\* The checks without the prototype test of line 260.
isValid_noProto(job, compiled) ==
    /\ job.kind \notin {"null", "undefined"}
    /\ IsText(job.author) /\ IsText(job.repo) /\ IsText(job.branch)
    /\ compiled => (job.id.t = "integer" /\ job.success.t = "boolean")

isValid(job, compiled) ==
    IF job.kind \in {"null", "undefined"} THEN FALSE
    ELSE IF job.kind # "plain" THEN FALSE
    ELSE IF ~IsText(job.author) THEN FALSE
    ELSE IF ~IsText(job.repo) THEN FALSE
    ELSE IF ~IsText(job.branch) THEN FALSE
    ELSE IF compiled
         THEN IF job.id.t # "integer" THEN FALSE
              ELSE IF job.success.t # "boolean" THEN FALSE
              ELSE TRUE
    ELSE TRUE

(***************************************************************************)
(* Ledger documents.  An object is a function from its keys; a key is the  *)
(* sequence of its characters (digits) or of one whole word: the keys of a *)
(* ledger are "latest", "last_successful" and the decimal text of the ids. *)
(***************************************************************************)
Digits == <<"0", "1", "2", "3", "4", "5", "6", "7", "8", "9">>

\* Property-key text of a small non-negative integer (ids used here are < 100).
DecStr(n) ==
    IF n < 10 THEN <<Digits[n + 1]>>
    ELSE <<Digits[(n \div 10) + 1], Digits[(n % 10) + 1]>>

\* builds[job.id]: the key the id is converted to.
IdKey(id) == IF id.t = "integer" THEN DecStr(id.n) ELSE <<id.t>>

LatestKey == <<"latest">>
LastSuccessfulKey == <<"last_successful">>
PointerKeys == {LatestKey, LastSuccessfulKey}

EmptyLedger == [k \in {} |-> 0]

Put(obj, k, v) == [x \in (DOMAIN obj) \cup {k} |-> IF x = k THEN v ELSE obj[x]]

RecordKeys(doc) == (DOMAIN doc) \ PointerKeys

ToStr(v) == IF IsText(v) THEN v.s ELSE v.t

\* path.resolve(__dirname, "../" + author + "/" + repo + "/" + branch + ...)
DirOf(job) == <<ToStr(job.author), ToStr(job.repo), ToStr(job.branch)>>

Dirs == {DirOf(j) : j \in Jobs \cup ClearJobs}

\* A path that leaves the branch out.
file_noBranch(job) == <<ToStr(job.author), ToStr(job.repo), "main">>

\* Line 58: the ledger file of the job.
file(job) == DirOf(job)

Truthy(v) == IF v.t = "boolean" THEN v.b ELSE v.t = "string"

\* The object literal of append().
NewRecord(job) ==
    [id |-> job.id.n,
     sha |-> job.commit.sha,
     date |-> job.commit.date,
     timestamp |-> job.commit.timestamp,
     message |-> job.commit.message,
     author |-> job.commit.author,
     avatar |-> job.commit.avatar,
     license |-> job.license,
     candidate |-> "DEVELOPMENT",
     status |-> IF Truthy(job.success) THEN "SUCCESS" ELSE "FAILURE"]

\* Index of the tag the inner loop stops at for a record with this sha; 0 if
\* the loop runs out.
FirstMatch(tags, sha) ==
    IF \E i \in 1..Len(tags) : tags[i][2] = sha
    THEN CHOOSE i \in 1..Len(tags) :
            /\ tags[i][2] = sha
            /\ \A h \in 1..(i - 1) : tags[h][2] # sha
    ELSE 0

\* Tags applied to the new record only.
TagTargets_newOnly(builds, job) == {IdKey(job.id)}

\* The keys the outer loop of "Apply any Tags" visits.
TagTargets(builds, job) == DOMAIN builds

\* A loop that classifies every record anew, DEVELOPMENT without a match.
ApplyTags_reclassify(builds, job) ==
    [k \in DOMAIN builds |->
        IF k \in PointerKeys THEN builds[k]
        ELSE LET m == FirstMatch(job.tags, builds[k].sha)
             IN IF m = 0 THEN [builds[k] EXCEPT !.candidate = "DEVELOPMENT"]
                ELSE [f \in (DOMAIN builds[k]) \cup {"tag"} |->
                        IF f = "candidate" THEN "RELEASE"
                        ELSE IF f = "tag" THEN job.tags[m][1]
                        ELSE builds[k][f]]]

\* "Apply any Tags".  The pointers are numbers: reading .sha from them gives
\* undefined, which no tag value equals.
ApplyTags(builds, job) ==
    [k \in DOMAIN builds |->
        IF k \in PointerKeys \/ k \notin TagTargets(builds, job) THEN builds[k]
        ELSE LET m == FirstMatch(job.tags, builds[k].sha)
             IN IF m = 0 THEN builds[k]
                ELSE [f \in (DOMAIN builds[k]) \cup {"tag"} |->
                        IF f = "candidate" THEN "RELEASE"
                        ELSE IF f = "tag" THEN job.tags[m][1]
                        ELSE builds[k][f]]]

\* The synchronous body of append() up to the writeFile call.
append(builds, job) ==
    LET b1 == Put(builds, IdKey(job.id), NewRecord(job))
        b2 == IF Truthy(job.success) THEN Put(b1, LastSuccessfulKey, job.id.n) ELSE b1
        b3 == Put(b2, LatestKey, job.id.n)
    IN ApplyTags(b3, job)

\* JSON.stringify: properties whose value is undefined are left out.
StringifyRecord(r) ==
    [f \in {g \in DOMAIN r : g = "id" \/ r[g] # Undefined} |-> r[f]]

\* The text written: the members of the object, each a key with its value.
Stringify(builds) ==
    { <<k, IF k \in PointerKeys THEN builds[k] ELSE StringifyRecord(builds[k])>> :
        k \in DOMAIN builds }

\* JSON.parse of a well-formed text: the object with those members.
Parse(doc) ==
    [k \in {m[1] : m \in doc} |-> (CHOOSE m \in doc : m[1] = k)[2]]

AbsentFile == [st |-> "absent", doc |-> {}]
CorruptFile == [st |-> "corrupt", doc |-> {}]
JsonFile(doc) == [st |-> "json", doc |-> doc]

(***************************************************************************)
(* State.                                                                  *)
(***************************************************************************)
VARIABLES
    disk,      \* builds.json of every author/repo/branch directory
    pc,        \* per addBuild call: idle, reading, writing, resolved, rejected, hung
    job,       \* per call: its job
    builds,    \* per call: its local `builds`
    err,       \* per call: the rejection reason
    raced,     \* per call: another call on the same file was in flight with it
    ncalls,    \* calls made so far
    ioFaults,  \* filesystem failures so far
    ev,        \* the last step: its name, its call, the job passed, what a
               \* clearWorkspace call returned (a rejected promise, a resolved
               \* one, or clearFolder's) and the fs operations it issued
    parent,    \* the working-files tree: the directory each path lies in
    kind,      \* per path: absent, file, dir, other
    kind0,     \* per path: its kind before reclamation
    cpc,       \* per clearFolder call (one per path): its position
    cst,       \* per clearFolder call: none, pending, resolved, rejected
    cerr,      \* per clearFolder call: the error it rejected with
    clen,      \* per clearFolder call: `length`
    cidx,      \* per clearFolder call: `index`
    reported,  \* per clearFolder call: its parent's then-callback has run
    rmdirIssued,   \* per path: rmdir calls issued
    rmdirPending   \* per path: rmdir calls whose callback has not fired

regVars == <<disk, pc, job, builds, err, raced>>
clrVars == <<parent, kind, kind0, cpc, cst, cerr, clen, cidx, reported,
             rmdirIssued, rmdirPending>>
vars == <<regVars, clrVars, ncalls, ioFaults, ev>>

Slots == 1..MaxSlots

Settled(c) == pc[c] \in {"resolved", "rejected"}
Free(c) == pc[c] = "idle" \/ Settled(c)
InFlight(c) == pc[c] \in {"reading", "writing", "hung"}

(***************************************************************************)
(* The working-files tree.  Path 1 is author/repo/branch/files of WorkDir; *)
(* the other paths lie below it, each in the directory parent[n].          *)
(***************************************************************************)
NodeIds == 1..MaxNodes
Root == 1
WorkDir == DirOf(BaseJob)

NoErr == [op |-> "none", at |-> 0]
Err(op, n) == [op |-> op, at |-> n]

\* Trees of n paths, the paths numbered breadth-first: every path but the
\* first lies in an earlier directory, and later paths in later directories.
ParentVecs(n) ==
    {p \in [NodeIds -> 0..MaxNodes] :
        \A i \in NodeIds :
            IF i = Root \/ i > n THEN p[i] = 0
            ELSE /\ p[i] \in 1..(i - 1)
                 /\ i > 2 => p[i - 1] <= p[i]}

KindsFor(p, n) ==
    {k \in [NodeIds -> {"absent", "file", "dir", "other"}] :
        /\ \A i \in NodeIds :
            IF i > n THEN k[i] = "absent"
            ELSE /\ k[i] # "absent"
                 /\ i # Root => k[p[i]] = "dir"
        /\ Cardinality({i \in NodeIds : k[i] = "other"}) <= MaxOther}

Children(n) == {c \in NodeIds : parent[c] = n}

InitRegistry ==
    /\ pc = [c \in Slots |-> "idle"]
    /\ job = [c \in Slots |-> BaseJob]
    /\ builds = [c \in Slots |-> EmptyLedger]
    /\ err = [c \in Slots |-> ""]
    /\ raced = [c \in Slots |-> FALSE]
    /\ ncalls = 0
    /\ ioFaults = 0
    /\ ev = [act |-> "Init", c |-> 0, job |-> BaseJob, res |-> "", ops |-> {}]

InitReclaimer ==
    /\ kind0 = kind
    /\ cpc = [n \in NodeIds |-> "idle"]
    /\ cst = [n \in NodeIds |-> "none"]
    /\ cerr = [n \in NodeIds |-> NoErr]
    /\ clen = [n \in NodeIds |-> 0]
    /\ cidx = [n \in NodeIds |-> 0]
    /\ reported = [n \in NodeIds |-> FALSE]
    /\ rmdirIssued = [n \in NodeIds |-> 0]
    /\ rmdirPending = [n \in NodeIds |-> 0]

\* No ledger yet, no working files.
Init ==
    /\ disk = [d \in Dirs |-> AbsentFile]
    /\ parent = [n \in NodeIds |-> 0]
    /\ kind = [n \in NodeIds |-> "absent"]
    /\ InitRegistry
    /\ InitReclaimer

\* A first build is recorded and the build left a tree of working files.
InitClear ==
    /\ disk = [d \in Dirs |-> IF d = WorkDir
                               THEN JsonFile(Stringify(append(EmptyLedger, BaseJob)))
                               ELSE AbsentFile]
    /\ \E n \in 0..MaxNodes :
          \E p \in ParentVecs(n) :
              /\ parent = p
              /\ kind \in KindsFor(p, n)
    /\ InitRegistry
    /\ InitReclaimer

(***************************************************************************)
(* addBuild                                                                *)
(***************************************************************************)
\* The guard as the render operations write it, without `compiled`.
addBuildGuard_uncompiled(j) == isValid(j, FALSE)

\* Line 53: the guard of addBuild.
addBuildGuard(j) == isValid(j, TRUE)

\* then(resolve, resolve).
writeSettle_alwaysResolve(ok) == "resolved"

\* Line 93: how the writeFile promise settles addBuild's promise.
writeSettle(ok) == IF ok THEN "resolved" ELSE "rejected"

\* A call in flight on the ledger file addBuild(j) is about to use.
Overlaps(b, j) == addBuildGuard(j) /\ InFlight(b) /\ file(job[b]) = file(j)

\* The synchronous part of addBuild(job): validation, existsSync, and either
\* the readFile call or append() with the writeFile call.
AddBuild(c, j) ==
    /\ Free(c)
    /\ \A b \in Slots : b < c => ~Free(b)
    /\ ncalls < MaxCalls
    /\ ncalls' = ncalls + 1
    /\ job' = [job EXCEPT ![c] = j]
    /\ UNCHANGED <<disk, ioFaults>>
    /\ UNCHANGED clrVars
    /\ raced' = [b \in Slots |->
                    IF b = c THEN \E x \in Slots \ {c} : Overlaps(x, j)
                    ELSE raced[b] \/ Overlaps(b, j)]
    /\ IF ~addBuildGuard(j)
       THEN /\ pc' = [pc EXCEPT ![c] = "rejected"]
            /\ err' = [err EXCEPT ![c] = "Invalid Job"]
            /\ builds' = [builds EXCEPT ![c] = EmptyLedger]
            /\ ev' = [act |-> "AddBuild", c |-> c, job |-> j, res |-> "", ops |-> {}]
       ELSE IF disk[file(j)].st # "absent"
       THEN /\ pc' = [pc EXCEPT ![c] = "reading"]
            /\ err' = [err EXCEPT ![c] = ""]
            /\ builds' = [builds EXCEPT ![c] = EmptyLedger]
            /\ ev' = [act |-> "AddBuild", c |-> c, job |-> j, res |-> "", ops |-> {"existsSync", "readFile"}]
       ELSE IF ~j.hasCommit
       THEN \* job.commit.sha throws inside the executor: the promise rejects
            /\ pc' = [pc EXCEPT ![c] = "rejected"]
            /\ err' = [err EXCEPT ![c] = "TypeError"]
            /\ builds' = [builds EXCEPT ![c] = EmptyLedger]
            /\ ev' = [act |-> "AddBuild", c |-> c, job |-> j, res |-> "", ops |-> {"existsSync"}]
       ELSE /\ pc' = [pc EXCEPT ![c] = "writing"]
            /\ err' = [err EXCEPT ![c] = ""]
            /\ builds' = [builds EXCEPT ![c] = append(EmptyLedger, j)]
            /\ ev' = [act |-> "AddBuild", c |-> c, job |-> j, res |-> "", ops |-> {"existsSync", "writeFile"}]

\* readFile fulfils: builds = JSON.parse(data); append().  A throw in this
\* handler rejects only the promise returned by then(), which nobody holds:
\* addBuild's promise stays pending.
ReadOk(c) ==
    /\ pc[c] = "reading"
    /\ disk[file(job[c])].st # "absent"
    /\ UNCHANGED <<disk, job, err, raced, ncalls, ioFaults>>
    /\ UNCHANGED clrVars
    /\ IF disk[file(job[c])].st = "corrupt"
       THEN /\ pc' = [pc EXCEPT ![c] = "hung"]
            /\ UNCHANGED builds
            /\ ev' = [act |-> "ReadOk", c |-> c, job |-> BaseJob, res |-> "", ops |-> {}]
       ELSE IF ~job[c].hasCommit
       THEN /\ pc' = [pc EXCEPT ![c] = "hung"]
            /\ builds' = [builds EXCEPT ![c] = Parse(disk[file(job[c])].doc)]
            /\ ev' = [act |-> "ReadOk", c |-> c, job |-> BaseJob, res |-> "", ops |-> {}]
       ELSE /\ pc' = [pc EXCEPT ![c] = "writing"]
            /\ builds' = [builds EXCEPT ![c] =
                             append(Parse(disk[file(job[c])].doc), job[c])]
            /\ ev' = [act |-> "ReadOk", c |-> c, job |-> BaseJob, res |-> "", ops |-> {"writeFile"}]

\* readFile rejects: the rejection handler is append itself.
ReadFail(c) ==
    /\ pc[c] = "reading"
    /\ ioFaults < MaxIoFaults
    /\ ioFaults' = ioFaults + 1
    /\ UNCHANGED <<disk, job, raced, ncalls>>
    /\ UNCHANGED clrVars
    /\ IF ~job[c].hasCommit
       THEN /\ pc' = [pc EXCEPT ![c] = "hung"]
            /\ UNCHANGED <<builds, err>>
            /\ ev' = [act |-> "ReadFail", c |-> c, job |-> BaseJob, res |-> "", ops |-> {}]
       ELSE /\ pc' = [pc EXCEPT ![c] = "writing"]
            /\ builds' = [builds EXCEPT ![c] = append(builds[c], job[c])]
            /\ UNCHANGED err
            /\ ev' = [act |-> "ReadFail", c |-> c, job |-> BaseJob, res |-> "", ops |-> {"writeFile"}]

\* writeFile fulfils: the file holds JSON.stringify(builds); resolve.
WriteOk(c) ==
    /\ pc[c] = "writing"
    /\ disk' = [disk EXCEPT ![file(job[c])] = JsonFile(Stringify(builds[c]))]
    /\ pc' = [pc EXCEPT ![c] = writeSettle(TRUE)]
    /\ ev' = [act |-> "WriteOk", c |-> c, job |-> BaseJob, res |-> "", ops |-> {}]
    /\ UNCHANGED <<job, builds, err, raced, ncalls, ioFaults>>
    /\ UNCHANGED clrVars

\* writeFile rejects: the file is as it was (the open failed) or holds a
\* truncated document (a write failed); reject.
WriteFail(c) ==
    /\ pc[c] = "writing"
    /\ ioFaults < MaxIoFaults
    /\ ioFaults' = ioFaults + 1
    /\ \/ UNCHANGED disk
       \/ disk' = [disk EXCEPT ![file(job[c])] = CorruptFile]
    /\ pc' = [pc EXCEPT ![c] = writeSettle(FALSE)]
    /\ err' = [err EXCEPT ![c] = "PersistError"]
    /\ ev' = [act |-> "WriteFail", c |-> c, job |-> BaseJob, res |-> "", ops |-> {}]
    /\ UNCHANGED <<job, builds, raced, ncalls>>
    /\ UNCHANGED clrVars

(***************************************************************************)
(* clearWorkspace and clearFolder                                          *)
(***************************************************************************)
\* Line 173: the guard of clearWorkspace.
clearWorkspaceGuard(j) == isValid(j, FALSE)

\* An existence check that finds the directory whatever the job.
FilesExist_always(j) == TRUE

\* existsSync of author/repo/branch/files.
FilesExist(j) == DirOf(j) = WorkDir /\ kind[Root] # "absent"

\* An off-by-one test.
check_offByOne(length, index) == length <= index + 1

\* Line 214: the test of check().
check(length, index) == length = index

\* next leaving `index` as it is.
nextIndex_stays(index) == index

\* Line 230: what next does to `index`.
nextIndex(index) == index + 1

\* cancel counting the child as done, as next does.
cancelIndex_counts(index) == index + 1

\* Lines 234-237: what cancel does to `index`.
cancelIndex(index) == index

\* A loop that stops after its first call.
dispatched_firstOnly(files) ==
    IF files = {} THEN {} ELSE {CHOOSE c \in files : \A d \in files : c <= d}

\* Lines 239-241: the children the loop calls clearFolder on.
dispatched(files) == files

resolveP(st, n) == [st EXCEPT ![n] = IF @ = "pending" THEN "resolved" ELSE @]
rejectP(st, n) == [st EXCEPT ![n] = IF @ = "pending" THEN "rejected" ELSE @]
rejectE(n, e) == [cerr EXCEPT ![n] = IF cst[n] = "pending" THEN e ELSE @]

\* clearWorkspace(job): validation, existsSync, and the start of
\* clearFolder(files) with its stat call.
ClearWorkspace(j) ==
    /\ cst[Root] = "none"
    /\ UNCHANGED <<regVars, ncalls, ioFaults>>
    /\ UNCHANGED <<parent, kind, kind0, cerr, clen, cidx, reported,
                   rmdirIssued, rmdirPending>>
    /\ IF ~clearWorkspaceGuard(j)
       THEN /\ UNCHANGED <<cpc, cst>>
            /\ ev' = [act |-> "ClearWorkspace", c |-> 0, job |-> j, res |-> "rejected",
                         ops |-> {}]
       ELSE IF ~FilesExist(j)
       THEN /\ UNCHANGED <<cpc, cst>>
            /\ ev' = [act |-> "ClearWorkspace", c |-> 0, job |-> j, res |-> "resolved",
                         ops |-> {"existsSync"}]
       ELSE /\ cpc' = [cpc EXCEPT ![Root] = "stat"]
            /\ cst' = [cst EXCEPT ![Root] = "pending"]
            /\ ev' = [act |-> "ClearWorkspace", c |-> 0, job |-> j, res |-> "clearFolder",
                         ops |-> {"existsSync", "stat"}]

\* clearFolder(files) called directly.
ClearFolder ==
    /\ cst[Root] = "none"
    /\ ncalls < MaxCalls
    /\ ncalls' = ncalls + 1
    /\ cpc' = [cpc EXCEPT ![Root] = "stat"]
    /\ cst' = [cst EXCEPT ![Root] = "pending"]
    /\ ev' = [act |-> "ClearFolder", c |-> Root, job |-> BaseJob, res |-> "", ops |-> {"stat"}]
    /\ UNCHANGED <<regVars, ioFaults>>
    /\ UNCHANGED <<parent, kind, kind0, cerr, clen, cidx, reported,
                   rmdirIssued, rmdirPending>>

\* The stat callback without error.  stat of a missing path gives ENOENT.
StatDone(n) ==
    /\ cpc[n] = "stat"
    /\ UNCHANGED <<regVars, ncalls, ioFaults>>
    /\ UNCHANGED <<parent, kind, kind0, clen, cidx, reported,
                   rmdirIssued, rmdirPending>>
    /\ IF kind[n] = "absent"
       THEN /\ cpc' = [cpc EXCEPT ![n] = "done"]
            /\ cst' = rejectP(cst, n)
            /\ cerr' = rejectE(n, Err("stat", n))
            /\ ev' = [act |-> "StatDone", c |-> 0, job |-> BaseJob, res |-> "", ops |-> {}]
       ELSE IF kind[n] = "file"
       THEN /\ cpc' = [cpc EXCEPT ![n] = "unlink"]
            /\ UNCHANGED <<cst, cerr>>
            /\ ev' = [act |-> "StatDone", c |-> 0, job |-> BaseJob, res |-> "", ops |-> {"unlink"}]
       ELSE IF kind[n] = "dir"
       THEN /\ cpc' = [cpc EXCEPT ![n] = "readdir"]
            /\ UNCHANGED <<cst, cerr>>
            /\ ev' = [act |-> "StatDone", c |-> 0, job |-> BaseJob, res |-> "", ops |-> {"readdir"}]
       ELSE \* neither isFile() nor isDirectory(): no branch runs
            /\ cpc' = [cpc EXCEPT ![n] = "stuck"]
            /\ UNCHANGED <<cst, cerr>>
            /\ ev' = [act |-> "StatDone", c |-> 0, job |-> BaseJob, res |-> "", ops |-> {}]

\* A callback of stat, unlink, readdir or rmdir with an error: reject.
OpFail(n, op) ==
    /\ ioFaults < MaxIoFaults
    /\ ioFaults' = ioFaults + 1
    /\ cst' = rejectP(cst, n)
    /\ cerr' = rejectE(n, Err(op, n))
    /\ ev' = [act |-> "OpFail", c |-> 0, job |-> BaseJob, res |-> "", ops |-> {}]
    /\ UNCHANGED <<regVars, ncalls>>
    /\ UNCHANGED <<parent, kind, kind0, clen, cidx, reported, rmdirIssued>>

StatFail(n) ==
    /\ cpc[n] = "stat"
    /\ cpc' = [cpc EXCEPT ![n] = "done"]
    /\ UNCHANGED rmdirPending
    /\ OpFail(n, "stat")

UnlinkDone(n) ==
    /\ cpc[n] = "unlink"
    /\ cpc' = [cpc EXCEPT ![n] = "done"]
    /\ UNCHANGED <<regVars, ncalls, ioFaults>>
    /\ UNCHANGED <<parent, kind0, clen, cidx, reported,
                   rmdirIssued, rmdirPending>>
    /\ ev' = [act |-> "UnlinkDone", c |-> 0, job |-> BaseJob, res |-> "", ops |-> {}]
    /\ IF kind[n] = "absent"
       THEN /\ cst' = rejectP(cst, n)
            /\ cerr' = rejectE(n, Err("unlink", n))
            /\ UNCHANGED kind
       ELSE /\ kind' = [kind EXCEPT ![n] = "absent"]
            /\ cst' = resolveP(cst, n)
            /\ UNCHANGED cerr

UnlinkFail(n) ==
    /\ cpc[n] = "unlink"
    /\ cpc' = [cpc EXCEPT ![n] = "done"]
    /\ UNCHANGED rmdirPending
    /\ OpFail(n, "unlink")

\* The readdir callback without error: length, index, check(), and when
\* check() is false the loop that calls clearFolder on the children, each
\* call issuing its stat.
ReaddirDone(n) ==
    /\ cpc[n] = "readdir"
    /\ LET files == {c \in Children(n) : kind[c] # "absent"}
           length == Cardinality(files)
       IN /\ clen' = [clen EXCEPT ![n] = length]
          /\ cidx' = [cidx EXCEPT ![n] = 0]
          /\ IF check(length, 0)
             THEN /\ rmdirIssued' = [rmdirIssued EXCEPT ![n] = @ + 1]
                  /\ rmdirPending' = [rmdirPending EXCEPT ![n] = @ + 1]
                  /\ cpc' = [cpc EXCEPT ![n] = "listed"]
                  /\ UNCHANGED cst
                  /\ ev' = [act |-> "ReaddirDone", c |-> 0, job |-> BaseJob, res |-> "", ops |-> {"rmdir"}]
             ELSE /\ UNCHANGED <<rmdirIssued, rmdirPending>>
                  /\ cpc' = [c \in NodeIds |->
                               IF c = n THEN "listed"
                               ELSE IF c \in dispatched(files) THEN "stat"
                               ELSE cpc[c]]
                  /\ cst' = [c \in NodeIds |->
                               IF c \in dispatched(files) THEN "pending" ELSE cst[c]]
                  /\ ev' = [act |-> "ReaddirDone", c |-> 0, job |-> BaseJob, res |-> "", ops |-> {"stat"}]
    /\ UNCHANGED <<regVars, ncalls, ioFaults>>
    /\ UNCHANGED <<parent, kind, kind0, cerr, reported>>

ReaddirFail(n) ==
    /\ cpc[n] = "readdir"
    /\ cpc' = [cpc EXCEPT ![n] = "done"]
    /\ UNCHANGED rmdirPending
    /\ OpFail(n, "readdir")

\* The rmdir callback without error.  rmdir of a directory that still has
\* entries gives ENOTEMPTY, of a missing one ENOENT.
RmdirDone(n) ==
    /\ rmdirPending[n] > 0
    /\ rmdirPending' = [rmdirPending EXCEPT ![n] = @ - 1]
    /\ ev' = [act |-> "RmdirDone", c |-> 0, job |-> BaseJob, res |-> "", ops |-> {}]
    /\ UNCHANGED <<regVars, ncalls, ioFaults>>
    /\ UNCHANGED <<parent, kind0, cpc, clen, cidx, reported, rmdirIssued>>
    /\ IF kind[n] = "absent" \/ \E c \in Children(n) : kind[c] # "absent"
       THEN /\ cst' = rejectP(cst, n)
            /\ cerr' = rejectE(n, Err("rmdir", n))
            /\ UNCHANGED kind
       ELSE /\ kind' = [kind EXCEPT ![n] = "absent"]
            /\ cst' = resolveP(cst, n)
            /\ UNCHANGED cerr

RmdirFail(n) ==
    /\ rmdirPending[n] > 0
    /\ rmdirPending' = [rmdirPending EXCEPT ![n] = @ - 1]
    /\ UNCHANGED cpc
    /\ OpFail(n, "rmdir")

\* The index after a callback of a child, and the rmdir check() issues.
Reported(c, index) ==
    LET p == parent[c]
    IN /\ reported' = [reported EXCEPT ![c] = TRUE]
       /\ cidx' = [cidx EXCEPT ![p] = index]
       /\ IF index # cidx[p] /\ check(clen[p], index)
          THEN /\ rmdirIssued' = [rmdirIssued EXCEPT ![p] = @ + 1]
               /\ rmdirPending' = [rmdirPending EXCEPT ![p] = @ + 1]
               /\ ev' = [act |-> "Reported", c |-> 0, job |-> BaseJob, res |-> "", ops |-> {"rmdir"}]
          ELSE /\ UNCHANGED <<rmdirIssued, rmdirPending>>
               /\ ev' = [act |-> "Reported", c |-> 0, job |-> BaseJob, res |-> "", ops |-> {}]

\* next: the then-callback of a child's clearFolder that resolved.
Next(c) ==
    /\ c # Root
    /\ cst[c] = "resolved"
    /\ ~reported[c]
    /\ Reported(c, nextIndex(cidx[parent[c]]))
    /\ UNCHANGED <<regVars, ncalls, ioFaults>>
    /\ UNCHANGED <<parent, kind, kind0, cpc, cst, cerr, clen>>

\* cancel: the then-callback of a child's clearFolder that rejected.  Its
\* assignment to the loop variable comes after the loop has ended.
Cancel(c) ==
    /\ c # Root
    /\ cst[c] = "rejected"
    /\ ~reported[c]
    /\ cst' = rejectP(cst, parent[c])
    /\ cerr' = rejectE(parent[c], cerr[c])
    /\ Reported(c, cancelIndex(cidx[parent[c]]))
    /\ UNCHANGED <<regVars, ncalls, ioFaults>>
    /\ UNCHANGED <<parent, kind, kind0, cpc, clen>>

(***************************************************************************)
(* Specifications.                                                         *)
(***************************************************************************)
\* The driver runs one operation at a time.
NoneInFlight == \A c \in Slots : ~InFlight(c)

StartSeq == \E j \in Jobs : NoneInFlight /\ AddBuild(1, j)
DoReadOk == \E c \in Slots : ReadOk(c)
DoReadFail == \E c \in Slots : ReadFail(c)
DoWriteOk == \E c \in Slots : WriteOk(c)
DoWriteFail == \E c \in Slots : WriteFail(c)
DoClearWorkspace == \E j \in ClearJobs : NoneInFlight /\ ClearWorkspace(j)

NextSeq ==
    \/ StartSeq
    \/ DoReadOk
    \/ DoReadFail
    \/ DoWriteOk
    \/ DoWriteFail
    \/ DoClearWorkspace

\* The registry with a sequential driver, before any working files exist.
Spec == Init /\ [][NextSeq]_vars

\* The values isValid is called with: the jobs, and values that are no
\* plain records (undefined, an object without prototype, an array).
IsValidInputs ==
    Jobs \cup { [BaseJob EXCEPT !.kind = "undefined"],
                [BaseJob EXCEPT !.kind = "nullproto"],
                [BaseJob EXCEPT !.kind = "array"],
                [BaseJob EXCEPT !.success = NotBool("object")],
                [BaseJob EXCEPT !.repo = StrObj("builds"), !.branch = StrObj("main")] }

InitValid ==
    /\ disk = [d \in Dirs |-> AbsentFile]
    /\ parent = [n \in NodeIds |-> 0]
    /\ kind = [n \in NodeIds |-> "absent"]
    /\ pc = [c \in Slots |-> "idle"]
    /\ job = [c \in Slots |-> BaseJob]
    /\ builds = [c \in Slots |-> EmptyLedger]
    /\ err = [c \in Slots |-> ""]
    /\ raced = [c \in Slots |-> FALSE]
    /\ ncalls = 0
    /\ ioFaults = 0
    /\ \E j \in IsValidInputs :
          ev = [act |-> "Init", c |-> 0, job |-> j, res |-> "", ops |-> {}]
    /\ InitReclaimer

\* isValid(job, compiled) called on the value at hand: it assigns nothing.
IsValid(compiled) ==
    /\ ev' = [act |-> IF compiled THEN "isValid(job, true)" ELSE "isValid(job, false)",
              c |-> 0, job |-> ev.job,
              res |-> IF isValid(ev.job, compiled) THEN "true" ELSE "false",
              ops |-> {}]
    /\ UNCHANGED <<regVars, clrVars, ncalls, ioFaults>>

NextValid == \E compiled \in BOOLEAN : IsValid(compiled)

\* Validation alone, on every kind of input.
SpecValid == InitValid /\ [][NextValid]_vars

\* The jobs of concurrent callers: both branches, every id, no tags.
ConcJobs == {j \in ValidJobs : j.tags = <<>> /\ j.commit.sha = "abc"}

\* A first build of the branch main is recorded; no working files.
InitConc ==
    /\ disk = [d \in Dirs |-> IF d = WorkDir
                               THEN JsonFile(Stringify(append(EmptyLedger, BaseJob)))
                               ELSE AbsentFile]
    /\ parent = [n \in NodeIds |-> 0]
    /\ kind = [n \in NodeIds |-> "absent"]
    /\ InitRegistry
    /\ InitReclaimer

\* A caller starts addBuild whatever else is in flight.
StartConc == \E c \in Slots : \E j \in ConcJobs : AddBuild(c, j)

\* A completion of a filesystem operation of addBuild without error.
Completion ==
    \/ DoReadOk
    \/ DoWriteOk

NextConc ==
    \/ StartConc
    \/ Completion
    \/ DoReadFail
    \/ DoWriteFail

\* The registry with callers that do not wait for one another.
SpecConc == InitConc /\ [][NextConc]_vars

\* Every filesystem operation of addBuild eventually completes.
FairConc == SpecConc /\ WF_vars(Completion)

DoStatDone == \E n \in NodeIds : StatDone(n)
DoStatFail == \E n \in NodeIds : StatFail(n)
DoUnlinkDone == \E n \in NodeIds : UnlinkDone(n)
DoUnlinkFail == \E n \in NodeIds : UnlinkFail(n)
DoReaddirDone == \E n \in NodeIds : ReaddirDone(n)
DoReaddirFail == \E n \in NodeIds : ReaddirFail(n)
DoRmdirDone == \E n \in NodeIds : RmdirDone(n)
DoRmdirFail == \E n \in NodeIds : RmdirFail(n)
DoNext == \E c \in NodeIds : Next(c)
DoCancel == \E c \in NodeIds : Cancel(c)

\* A filesystem callback or a then-callback of the reclaimer runs.
Callback ==
    \/ DoStatDone
    \/ DoUnlinkDone
    \/ DoReaddirDone
    \/ DoRmdirDone
    \/ DoNext
    \/ DoCancel

NextClear ==
    \/ DoClearWorkspace
    \/ ClearFolder
    \/ Callback
    \/ DoStatFail
    \/ DoUnlinkFail
    \/ DoReaddirFail
    \/ DoRmdirFail

\* The reclaimer on a tree of working files.
SpecClear == InitClear /\ [][NextClear]_vars

\* Every pending callback eventually runs.
FairClear == SpecClear /\ WF_vars(Callback)

(***************************************************************************)
(* Properties of the build registry.                                       *)
(***************************************************************************)
\* The step just taken is the named step of call c.
Did(a, c) == ev'.act = a /\ ev'.c = c

\* What a reader of a ledger file gets.
Ledger(ledgerFile) == Parse(ledgerFile.doc)

HasKey(ledgerFile, k) == ledgerFile.st = "json" /\ k \in DOMAIN Ledger(ledgerFile)

SameButCandidate(r1, r2) ==
    \A f \in ((DOMAIN r1) \cup (DOMAIN r2)) \ {"candidate", "tag"} :
        f \in DOMAIN r1 /\ f \in DOMAIN r2 /\ r1[f] = r2[f]

\* C1: when an addBuild call resolves, every id the persisted ledger held
\* before the call (other than the call's own id) is still a key of the
\* persisted ledger, its record unchanged except for candidate and tag.
C1_AppendOnly ==
    [][\A c \in Slots :
        (Did("WriteOk", c) /\ pc'[c] = "resolved") =>
            \A k \in RecordKeys(Ledger(disk[DirOf(job[c])])) \ {IdKey(job[c].id)} :
                /\ HasKey(disk'[DirOf(job[c])], k)
                /\ SameButCandidate(Ledger(disk[DirOf(job[c])])[k],
                                    Ledger(disk'[DirOf(job[c])])[k])]_vars

\* C2: when an addBuild call resolves, the persisted ledger has latest =
\* job.id, last_successful = job.id for a successful job, and for a failed
\* job last_successful as it was in the ledger before the call (absent if it
\* was absent).
C2_Pointers ==
    [][\A c \in Slots :
        (Did("WriteOk", c) /\ pc'[c] = "resolved") =>
            LET old == disk[DirOf(job[c])]
                new == disk'[DirOf(job[c])]
            IN /\ HasKey(new, LatestKey)
               /\ Ledger(new)[LatestKey] = job[c].id.n
               /\ job[c].success.b =>
                    /\ HasKey(new, LastSuccessfulKey)
                    /\ Ledger(new)[LastSuccessfulKey] = job[c].id.n
               /\ ~job[c].success.b =>
                    IF HasKey(old, LastSuccessfulKey)
                    THEN /\ HasKey(new, LastSuccessfulKey)
                         /\ Ledger(new)[LastSuccessfulKey] = Ledger(old)[LastSuccessfulKey]
                    ELSE ~HasKey(new, LastSuccessfulKey)]_vars

\* The record is classified as the first tag of `tags` with its sha says.
TaggedByFirst(r, tags) ==
    \A i \in 1..Len(tags) :
        (tags[i][2] = r.sha /\ \A h \in 1..(i - 1) : tags[h][2] # r.sha) =>
            /\ r.candidate = "RELEASE"
            /\ "tag" \in DOMAIN r
            /\ r.tag = tags[i][1]

\* C3: after addBuild(job) resolves, every record of the persisted ledger
\* whose sha is the value of an entry of job.tags has candidate RELEASE and
\* as tag the first tag name of job.tags with that sha.
C3_TagsApplied ==
    \A c \in Slots :
        (ev.act = "WriteOk" /\ ev.c = c /\ pc[c] = "resolved") =>
            /\ disk[DirOf(job[c])].st = "json"
            /\ \A k \in RecordKeys(Ledger(disk[DirOf(job[c])])) :
                  TaggedByFirst(Ledger(disk[DirOf(job[c])])[k], job[c].tags)

\* An earlier record with another sha than the new build's was flipped to
\* RELEASE by a job carrying two tags for that record's sha.
C3_Witness ==
    \E c \in Slots :
        /\ ev.act = "WriteOk" /\ ev.c = c /\ pc[c] = "resolved"
        /\ Len(job[c].tags) = 2
        /\ job[c].tags[1][2] = job[c].tags[2][2]
        /\ job[c].commit.sha # job[c].tags[1][2]
        /\ \E k \in RecordKeys(Ledger(disk[DirOf(job[c])])) \ {IdKey(job[c].id)} :
              LET r == Ledger(disk[DirOf(job[c])])[k]
              IN /\ r.sha = job[c].tags[1][2]
                 /\ r.candidate = "RELEASE"
                 /\ "tag" \in DOMAIN r
                 /\ r.tag = job[c].tags[1][1]

\* C5: when readFile delivers a document that does not parse, addBuild
\* (here of a job that carries its commit) rejects and the ledger file is
\* left as it is.
C5_CorruptLedgerRejects ==
    [][\A c \in Slots :
        (Did("ReadOk", c) /\ job[c].hasCommit /\ disk[DirOf(job[c])].st = "corrupt") =>
            /\ pc'[c] = "rejected"
            /\ disk' = disk]_vars

\* C6: when reading an existing ledger fails, addBuild (here of a job that
\* carries its commit) rejects, and no resolved call leaves the ledger
\* without a record it held before.
C6_ReadFailureSurfaces ==
    [][\A c \in Slots :
        /\ (Did("ReadFail", c) /\ job[c].hasCommit) => pc'[c] = "rejected"
        /\ Did("WriteOk", c) =>
              \A k \in RecordKeys(Ledger(disk[DirOf(job[c])])) :
                  HasKey(disk'[DirOf(job[c])], k)]_vars

\* C7: addBuild resolves only in the step in which its writeFile fulfils,
\* leaving the file holding the serialised local ledger; writeFile is issued
\* only by the step that ends the load (or finds no ledger) and has inserted
\* the job; a failed write rejects the call, and a rejected call stays
\* rejected.
C7_ResolveAfterWrite ==
    [][\A c \in Slots :
        /\ (pc'[c] = "resolved" /\ (pc[c] # "resolved" \/ ev'.c = c)) =>
              /\ pc[c] = "writing"
              /\ Did("WriteOk", c)
              /\ disk'[DirOf(job[c])] = JsonFile(Stringify(builds[c]))
        /\ ("writeFile" \in ev'.ops /\ ev'.c = c) =>
              /\ pc'[c] = "writing"
              /\ \/ pc[c] = "reading"
                 \/ Free(c) /\ disk[DirOf(job'[c])].st = "absent"
              /\ IdKey(job'[c].id) \in DOMAIN builds'[c]
              /\ builds'[c][LatestKey] = job'[c].id.n
        /\ Did("WriteFail", c) => pc'[c] = "rejected" /\ err'[c] = "PersistError"
        /\ (pc[c] = "rejected" /\ pc'[c] = "resolved") => Did("AddBuild", c)]_vars

\* A call resolved by a write that followed the load of an existing ledger.
C7_Witness ==
    \E c \in Slots :
        /\ ev.act = "WriteOk" /\ ev.c = c /\ pc[c] = "resolved"
        /\ Cardinality(RecordKeys(Ledger(disk[DirOf(job[c])]))) = 2

\* C17: in every persisted ledger, latest is the id of a record of the
\* ledger, and last_successful, when present, is the id of a record of the
\* ledger whose status is SUCCESS; ids may be added again.
C17_PointerInvariant ==
    \A d \in Dirs :
        disk[d].st = "json" =>
            LET ledger == Ledger(disk[d])
            IN /\ LatestKey \in DOMAIN ledger
               /\ DecStr(ledger[LatestKey]) \in RecordKeys(ledger)
               /\ LastSuccessfulKey \in DOMAIN ledger =>
                     /\ DecStr(ledger[LastSuccessfulKey]) \in RecordKeys(ledger)
                     /\ ledger[DecStr(ledger[LastSuccessfulKey])].status = "SUCCESS"

\* C18: when a call writes the ledger, every record it had before under
\* another id than the call's and still has is RELEASE after the write if it
\* was RELEASE before; and in every persisted ledger a record has a tag
\* exactly when its candidate is RELEASE.
C18_ReleaseMonotonic ==
    /\ [][\A c \in Slots :
            Did("WriteOk", c) =>
                \A k \in RecordKeys(Ledger(disk[DirOf(job[c])])) \ {IdKey(job[c].id)} :
                    ( /\ HasKey(disk'[DirOf(job[c])], k)
                      /\ Ledger(disk[DirOf(job[c])])[k].candidate = "RELEASE" ) =>
                        Ledger(disk'[DirOf(job[c])])[k].candidate = "RELEASE"]_vars
    /\ [](\A d \in Dirs :
            disk[d].st = "json" =>
                \A k \in RecordKeys(Ledger(disk[d])) :
                    ("tag" \in DOMAIN Ledger(disk[d])[k])
                        <=> (Ledger(disk[d])[k].candidate = "RELEASE"))

\* A call whose job carries no tags has just resolved, and the record of an
\* earlier build, tagged by the earlier call, is still RELEASE with its tag
\* beside the new DEVELOPMENT record.
C18_Witness ==
    \E c \in Slots :
        /\ ev.act = "WriteOk" /\ ev.c = c /\ pc[c] = "resolved"
        /\ job[c].tags = <<>>
        /\ Ledger(disk[DirOf(job[c])])[IdKey(job[c].id)].candidate = "DEVELOPMENT"
        /\ \E k \in RecordKeys(Ledger(disk[DirOf(job[c])])) \ {IdKey(job[c].id)} :
              /\ Ledger(disk[DirOf(job[c])])[k].candidate = "RELEASE"
              /\ Ledger(disk[DirOf(job[c])])[k].tag = "v1.0"

\* C20: an addBuild call that was made and has no readFile or writeFile
\* outstanding is settled.
C20_SettlesWhenQuiet ==
    \A c \in Slots :
        (pc[c] # "idle" /\ pc[c] \notin {"reading", "writing"}) => Settled(c)

\* C4: addBuild with a job that fails isValid(job, true) and clearWorkspace
\* with a job that fails isValid(job, false) reject in the call itself,
\* issue no filesystem operation and leave every ledger and every path of
\* the working files as it was.
C4_InvalidJobNoEffect ==
    [][/\ (ev'.act = "AddBuild" /\ ~isValid(ev'.job, TRUE)) =>
              /\ pc'[ev'.c] = "rejected"
              /\ err'[ev'.c] = "Invalid Job"
              /\ ev'.ops = {}
              /\ disk' = disk
              /\ kind' = kind
       /\ (ev'.act = "ClearWorkspace" /\ ~isValid(ev'.job, FALSE)) =>
              /\ ev'.res = "rejected"
              /\ ev'.ops = {}
              /\ disk' = disk
              /\ kind' = kind
              /\ cst' = cst]_vars

\* clearWorkspace has just rejected an invalid job, after addBuild rejected
\* a job that lacks only id and success, with a ledger on disk.
C4_Witness ==
    /\ ev.act = "ClearWorkspace" /\ ev.res = "rejected"
    /\ ~isValid(ev.job, FALSE)
    /\ pc[1] = "rejected" /\ err[1] = "Invalid Job"
    /\ ~isValid(job[1], TRUE) /\ isValid(job[1], FALSE)
    /\ disk[DirOf(job[1])].st = "json"

(***************************************************************************)
(* Properties of the workspace reclaimer.                                  *)
(***************************************************************************)
ChildCalls(n) == {c \in Children(n) : cst[c] # "none"}

\* C8: rmdir of a directory is issued at most once, and for a directory
\* that listed children only when the clearFolder of every child has
\* completed and been reported, every child being deleted by then.
C8_RmdirAfterChildren ==
    \A n \in NodeIds :
        /\ rmdirIssued[n] <= 1
        /\ (rmdirIssued[n] = 1 /\ kind0[n] = "dir") =>
              /\ Cardinality(ChildCalls(n)) = clen[n]
              /\ \A c \in Children(n) :
                    /\ kind[c] = "absent"
                    /\ kind0[c] # "absent" =>
                          cst[c] \in {"resolved", "rejected"} /\ reported[c]

\* rmdir of the root was issued after two children, one of them a
\* directory with a child of its own, were deleted.
C8_Witness ==
    /\ rmdirIssued[Root] = 1
    /\ clen[Root] = 2
    /\ \E d \in Children(Root) : kind0[d] = "dir" /\ clen[d] = 1 /\ rmdirIssued[d] = 1

\* C9: a directory with a rejected child never has its rmdir issued; when
\* cancel runs for a child the directory is rejected, with that child's
\* error if no failed child was reported before and with the error it has
\* otherwise; a rejected call keeps its error.
C9_FirstChildError ==
    [][\A n \in NodeIds :
        /\ (\E c \in Children(n) : cst'[c] = "rejected") => rmdirIssued'[n] = 0
        /\ (n # Root /\ cst[n] = "rejected" /\ ~reported[n] /\ reported'[n]) =>
              /\ cst'[parent[n]] = "rejected"
              /\ cerr'[parent[n]] =
                    IF \E s \in Children(parent[n]) : reported[s] /\ cst[s] = "rejected"
                    THEN cerr[parent[n]]
                    ELSE cerr[n]
        /\ cst[n] = "rejected" => (cst'[n] = "rejected" /\ cerr'[n] = cerr[n])]_vars

\* Two children of the root failed; the root carries the error of the
\* later-named one, which was reported first, and rmdir was not issued.
C9_Witness ==
    \E a, b \in Children(Root) :
        /\ a < b
        /\ cst[a] = "rejected" /\ reported[a]
        /\ cst[b] = "rejected" /\ reported[b]
        /\ cst[Root] = "rejected"
        /\ cerr[Root] = cerr[b]
        /\ cerr[a] # cerr[b]
        /\ rmdirIssued[Root] = 0

Started == cst[Root] # "none"

\* No callback of the reclaimer is pending.
Quiescent ==
    \A n \in NodeIds :
        /\ cpc[n] \notin {"stat", "unlink", "readdir"}
        /\ rmdirPending[n] = 0
        /\ (n # Root /\ cst[n] \in {"resolved", "rejected"}) => reported[n]

\* The filesystem operations that failed, each at its own path.
Failures ==
    {cerr[n] : n \in {m \in NodeIds : cst[m] = "rejected" /\ cerr[m].at = m}}

RECURSIVE AncestorsOf(_)
AncestorsOf(n) ==
    IF n = Root \/ parent[n] = 0 THEN {}
    ELSE {parent[n]} \cup AncestorsOf(parent[n])

\* C10: in a tree of plain files and directories where the unlink of one
\* file f is the only operation that fails, clearFolder on the root comes to
\* rest, and at rest it is rejected with f's error, clearFolder was called
\* on every path of the tree, every other file is deleted and so is every
\* directory that does not contain f.
C10_FailureIsolation ==
    /\ Started ~> Quiescent
    /\ [](\A f \in NodeIds :
            ( /\ Started /\ Quiescent
              /\ \A n \in NodeIds : kind0[n] # "other"
              /\ kind0[f] = "file"
              /\ Failures = {Err("unlink", f)} ) =>
                /\ cst[Root] = "rejected"
                /\ cerr[Root] = Err("unlink", f)
                /\ \A n \in NodeIds :
                      /\ kind0[n] # "absent" => cst[n] # "none"
                      /\ (kind0[n] = "file" /\ n # f) => kind[n] = "absent"
                      /\ (kind0[n] = "dir" /\ n \notin AncestorsOf(f)) =>
                            kind[n] = "absent")

\* At rest after the unlink of one file failed: the root is rejected with
\* that error while a sibling directory and the file in it are gone.
C10_Witness ==
    \E f, d, y \in NodeIds :
        /\ Started /\ Quiescent
        /\ kind0[f] = "file" /\ Failures = {Err("unlink", f)}
        /\ kind[f] = "file"
        /\ cerr[Root] = Err("unlink", f)
        /\ parent[f] = Root /\ parent[d] = Root /\ parent[y] = d
        /\ kind0[d] = "dir" /\ kind[d] = "absent"
        /\ kind0[y] = "file" /\ kind[y] = "absent"

\* The tree before reclamation holds plain files and directories only, and
\* its root exists.
PlainTree == kind0[Root] # "absent" /\ \A n \in NodeIds : kind0[n] # "other"

\* C11: on a tree of directories and plain files, clearFolder on the root
\* eventually resolves unless a filesystem operation fails; and whenever it
\* has resolved, neither the root nor any path below it exists.
C11_ClearsTree ==
    /\ (Started /\ PlainTree) ~> (cst[Root] = "resolved" \/ ioFaults > 0)
    /\ [](cst[Root] = "resolved" => \A n \in NodeIds : kind[n] = "absent")

\* The root resolved, with no operation failed, on a tree of a file and a
\* directory that held a file of its own.
C11_Witness ==
    \E f, d, y \in NodeIds :
        /\ cst[Root] = "resolved" /\ ioFaults = 0
        /\ kind0[Root] = "dir"
        /\ parent[f] = Root /\ parent[d] = Root /\ parent[y] = d
        /\ kind0[f] = "file" /\ kind0[d] = "dir" /\ kind0[y] = "file"
        /\ \A n \in NodeIds : kind[n] = "absent"

\* author/repo/branch/files of the job is not on disk.
FilesDirAbsent(j) == DirOf(j) # WorkDir \/ kind[Root] = "absent"

\* C12: clearWorkspace with a job valid in uncompiled mode resolves at once,
\* issuing no stat, readdir, unlink or rmdir and changing nothing, when the
\* files directory of the job does not exist; when it exists the call
\* returns the promise of clearFolder on that directory, started with its
\* stat; and no step of the reclamation changes a ledger file.
C12_ClearWorkspaceFrame ==
    [][/\ (ev'.act = "ClearWorkspace" /\ isValid(ev'.job, FALSE)
                /\ FilesDirAbsent(ev'.job)) =>
              /\ ev'.res = "resolved"
              /\ ev'.ops \cap {"stat", "readdir", "unlink", "rmdir"} = {}
              /\ kind' = kind /\ cst' = cst /\ cpc' = cpc
       /\ (ev'.act = "ClearWorkspace" /\ isValid(ev'.job, FALSE)
                /\ ~FilesDirAbsent(ev'.job)) =>
              /\ ev'.res = "clearFolder"
              /\ ev'.ops = {"existsSync", "stat"}
              /\ cst' = [cst EXCEPT ![Root] = "pending"]
              /\ cpc' = [cpc EXCEPT ![Root] = "stat"]
              /\ kind' = kind
       /\ disk' = disk]_vars

\* clearWorkspace has just resolved for a job without id and success whose
\* files directory does not exist, the ledger of its branch being on disk.
C12_Witness ==
    /\ ev.act = "ClearWorkspace" /\ ev.res = "resolved"
    /\ isValid(ev.job, FALSE) /\ ~isValid(ev.job, TRUE)
    /\ DirOf(ev.job) = WorkDir /\ kind[Root] = "absent"
    /\ disk[WorkDir].st = "json"
    /\ cst[Root] = "none"

\* C15: a clearFolder call on a directory that listed children is settled
\* (resolved or rejected) only when every child call it dispatched has
\* settled and been reported to it.
C15_SettledAfterChildren ==
    \A n \in NodeIds :
        (cst[n] \in {"resolved", "rejected"} /\ cpc[n] = "listed" /\ clen[n] > 0) =>
            \A c \in ChildCalls(n) :
                cst[c] \in {"resolved", "rejected"} /\ reported[c]

\* C19: once every filesystem callback and then-callback of the reclaimer
\* has fired and none is pending, every clearFolder call that was made is
\* settled.
C19_SettlesWhenQuiet ==
    (Started /\ Quiescent) =>
        \A n \in NodeIds : cst[n] # "none" => cst[n] \in {"resolved", "rejected"}

(***************************************************************************)
(* Properties of concurrent callers of the build registry.                 *)
(***************************************************************************)
\* The ledgers an addBuild call alone can start from, given the file as it
\* is: the parsed ledger, or the empty one when there is no file to parse or
\* a read has failed.
AloneStarts(ledgerFile) ==
    (IF ledgerFile.st = "json" THEN {Ledger(ledgerFile)} ELSE {})
    \cup (IF ledgerFile.st # "json" \/ ioFaults > 0 THEN {EmptyLedger} ELSE {})

\* C13: a step of an addBuild call changes no ledger file but that of its
\* own author/repo/branch; and a call that never had another call on its own
\* key in flight beside it, whatever calls on other keys ran meanwhile,
\* leaves its ledger as the call run alone on the file leaves it.
C13_KeysIndependent ==
    [][\A c \in Slots :
        /\ ev'.c = c =>
              \A d \in Dirs \ {DirOf(job'[c])} : disk'[d] = disk[d]
        /\ (Did("WriteOk", c) /\ ~raced[c]) =>
              \E start \in AloneStarts(disk[DirOf(job[c])]) :
                  disk'[DirOf(job[c])] = JsonFile(Stringify(append(start, job[c])))]_vars

\* A call on the branch main has just resolved, its ledger holding two
\* builds, while a call on the branch dev, started before the write, is
\* still writing.
C13_Witness ==
    \E c, b \in Slots :
        /\ ev.act = "WriteOk" /\ ev.c = c /\ pc[c] = "resolved" /\ ~raced[c]
        /\ pc[b] = "writing"
        /\ DirOf(job[c]) = WorkDir /\ DirOf(job[b]) # WorkDir
        /\ Cardinality(RecordKeys(Ledger(disk[WorkDir]))) = 2
        /\ disk[DirOf(job[b])].st = "absent"

\* Two calls with distinct ids on one ledger have both resolved and the
\* ledger holds the record of one of them only.
LostUpdate ==
    \E a, b \in Slots :
        /\ a # b /\ pc[a] = "resolved" /\ pc[b] = "resolved"
        /\ DirOf(job[a]) = DirOf(job[b])
        /\ job[a].id # job[b].id
        /\ HasKey(disk[DirOf(job[b])], IdKey(job[b].id))
        /\ ~HasKey(disk[DirOf(job[a])], IdKey(job[a].id))

\* C16: a call that had no other call on its ledger in flight beside it
\* loses no update: when it resolves, the persisted ledger holds its own
\* record and every record the ledger held before.  (Two calls that overlap
\* on one ledger can reach LostUpdate.)
C16_NoLostUpdateAlone ==
    [][\A c \in Slots :
        (Did("WriteOk", c) /\ pc'[c] = "resolved" /\ ~raced[c]) =>
            /\ HasKey(disk'[DirOf(job[c])], IdKey(job[c].id))
            /\ \A k \in RecordKeys(Ledger(disk[DirOf(job[c])])) :
                  HasKey(disk'[DirOf(job[c])], k)]_vars

(***************************************************************************)
(* Properties of validation.                                               *)
(***************************************************************************)
\* The value is present, a plain record, with text author, repo and branch
\* and, in compiled mode, an integer id and a boolean success.
ValidShape(j, compiled) ==
    /\ j.kind \notin {"null", "undefined"}
    /\ j.kind = "plain"
    /\ \A v \in {j.author, j.repo, j.branch} : v.t \in {"string", "String"}
    /\ compiled => (j.id.t = "integer" /\ j.success.t = "boolean")

\* C14: a call of isValid returns true exactly for a value of the valid
\* shape for its mode and false otherwise, leaves the value and every other
\* variable as they were, and returns what the call before it returned when
\* that was given the same value and mode.
C14_IsValidExact ==
    [][\A compiled \in BOOLEAN :
        ev'.act = (IF compiled THEN "isValid(job, true)" ELSE "isValid(job, false)") =>
            /\ ev'.res = (IF ValidShape(ev.job, compiled) THEN "true" ELSE "false")
            /\ ev'.job = ev.job
            /\ <<regVars, clrVars>>' = <<regVars, clrVars>>
            /\ ev.act = ev'.act => ev'.res = ev.res]_vars

\* isValid(job, true) has just returned false for a class instance whose
\* fields are all those of a valid job.
C14_Witness ==
    /\ ev.act = "isValid(job, true)" /\ ev.res = "false"
    /\ ev.job.kind = "instance"
    /\ ev.job.author.t = "string" /\ ev.job.repo.t = "string"
    /\ ev.job.branch.t = "string"
    /\ ev.job.id.t = "integer" /\ ev.job.success.t = "boolean"

====
